---- MODULE Spec2Model ----
(***************************************************************************)
(* Crawl orchestration of n8n_scraping_backend: EmailScraper.run           *)
(* (backend/scripts/scraping/scrape_for_email.py), the progress ledger     *)
(* (config/job_functions.py, backend/database.py) and the stop request     *)
(* (backend/routes/api.py), as a state machine.                            *)
(***************************************************************************)
EXTENDS Integers, Sequences, FiniteSets, TLC

(***************************************************************************)
(* Bounds of the model.                                                    *)
(***************************************************************************)
\* largest max_pages argument a job is started with
MaxPagesArg == 2
\* URLs are 0..MaxUrl: 0 is a URL of another host, 1 the seed, the rest
\* pages of the seed's host
MaxUrl == 3
\* longest list of page URLs sitemap discovery returns
MaxDiscovered == 2
\* largest worker pool (max_threads argument of EmailScraper)
MaxThreads == 2
\* sitemap URLs are 0..MaxSitemap: 0, 1 and 2 are the three fallback paths
MaxSitemap == 3
\* largest number of child sitemaps an index document lists
MaxChildren == 3
\* largest sitemap_limit a job is given
MaxSitemapLimit == 3
\* the URLs a list handed to _filter_and_sort_urls is drawn from are 0..MaxRankUrl
MaxRankUrl == 7
\* longest list handed to _filter_and_sort_urls
MaxRankLen == 3
\* the addresses a text contains are 0..MaxAddress
MaxAddress == 6
\* largest number of matches of EMAIL_REGEX in a text
MaxMatches == 3

(***************************************************************************)
(* Python's None for optional integer arguments and columns.               *)
(***************************************************************************)
PyNone == -1

min(a, b) == IF a <= b THEN a ELSE b

max(a, b) == IF a >= b THEN a ELSE b

Range(s) == {s[i] : i \in DOMAIN s}

(***************************************************************************)
(* URLs.  A URL is a small integer standing for a string; the attributes   *)
(* the coordinator reads from the string are its netloc, its length and    *)
(* the number of likelihood keywords it contains.  A netloc is the list of *)
(* its pieces, a leading "www." being a piece of its own.                  *)
(***************************************************************************)
UrlIds == 0..MaxUrl
base_url == 1
\* urlparse(url).netloc
UrlNetloc(u) ==
    CASE u = 0 -> << "other.com" >>
      [] u = 2 -> << "www.", "site.com" >>
      [] u = 3 -> << "WWW.", "Site.COM" >>
      [] u = 4 -> << "blog.", "site.com" >>
      [] u = 5 -> << "Site.COM" >>
      [] u = 6 -> << "www.", "www.", "site.com" >>
      [] OTHER -> << "site.com" >>
\* str.lower() of a piece of a netloc or of an address
Lower(piece) ==
    CASE piece = "WWW." -> "www."
      [] piece = "Site.COM" -> "site.com"
      [] piece = "Example.COM" -> "example.com"
      [] OTHER -> piece
\* a get_base_domain that does not lower the netloc
RemovePrefixOnly(netloc) ==
    IF netloc # << >> /\ netloc[1] = "www." THEN Tail(netloc) ELSE netloc
\* get_base_domain: netloc.lower().removeprefix("www.")
get_base_domain(netloc) ==
    LET lowered == [i \in DOMAIN netloc |-> Lower(netloc[i])]
    IN IF lowered # << >> /\ lowered[1] = "www." THEN Tail(lowered) ELSE lowered
\* get_base_domain(urlparse(url).netloc)
UrlDomain(u) == get_base_domain(UrlNetloc(u))
\* len(url): the seed is the shortest URL of its host; the URLs from 5 on are
\* longer than 100 characters
UrlLength(u) == IF u <= 4 THEN 20 + 7 * u ELSE 130 - 3 * u
\* number of email_keywords contained in the URL: even pages are contact
\* pages, and "/contact-us" contains "/contact" as well
UrlKeywords(u) == IF u = 0 THEN 0 ELSE IF u % 6 = 0 THEN 2 ELSE IF u % 2 = 0 THEN 1 ELSE 0
\* the emails a page shows when it can be navigated; 0 is on every page
PageEmails(u) == {0, u}

(***************************************************************************)
(* sort_urls_by_email_likelihood                                           *)
(***************************************************************************)
\* a score in which a keyword counts a tenth of a point
KeywordAsOnePoint(u) ==
    UrlKeywords(u) + (IF 100 - UrlLength(u) > 0 THEN 100 - UrlLength(u) ELSE 0)

\* get_url_score, times ten: 10 for every keyword contained in the URL, plus
\* max(0, 100 - len(url)) / 10
get_url_score(u) ==
    100 * UrlKeywords(u) + (IF 100 - UrlLength(u) > 0 THEN 100 - UrlLength(u) ELSE 0)

\* a sort key without the length: -score alone
ScoreOnly(u, v) == get_url_score(u) > get_url_score(v)

\* the sort key (-score, len) compared: u goes strictly before v
SortsBefore(u, v) ==
    \/ get_url_score(u) > get_url_score(v)
    \/ get_url_score(u) = get_url_score(v) /\ UrlLength(u) < UrlLength(v)

\* list(dict.fromkeys(urls)) without the deduplication
KeepDuplicates(urls) == urls

\* list(dict.fromkeys(urls)): first occurrences, in order
RECURSIVE Dedup(_)
Dedup(urls) ==
    IF urls = << >> THEN << >>
    ELSE LET front == Dedup(SubSeq(urls, 1, Len(urls) - 1))
             last == urls[Len(urls)]
         IN IF last \in Range(front) THEN front ELSE Append(front, last)

\* insertion of u into a sorted list, after every element not sorting after it
\* (sorted() is stable)
RECURSIVE InsertSorted(_, _)
InsertSorted(sorted, u) ==
    IF sorted = << >> THEN << u >>
    ELSE IF SortsBefore(u, sorted[Len(sorted)])
         THEN Append(InsertSorted(SubSeq(sorted, 1, Len(sorted) - 1), u), sorted[Len(sorted)])
         ELSE Append(sorted, u)

RECURSIVE SortedByKey(_)
SortedByKey(urls) ==
    IF urls = << >> THEN << >>
    ELSE InsertSorted(SortedByKey(SubSeq(urls, 1, Len(urls) - 1)), urls[Len(urls)])

sort_urls_by_email_likelihood(urls) == SortedByKey(Dedup(urls))

\* the filter of _filter_and_sort_urls: the URLs whose base domain is the
\* seed's, in order
filtered_urls(urls, seed) == SelectSeq(urls, LAMBDA u : UrlDomain(u) = UrlDomain(seed))

\* total_urls without the page budget
TotalUnbounded(n, mp) == n

\* self.total_urls = min(len(self.urls_to_visit), self.max_pages)
TotalUrls(n, mp) == min(n, mp)

(***************************************************************************)
(* The progress ledger: the job_executions row of (job_id, step_id).       *)
(***************************************************************************)
Statuses == {"running", "completed", "failed", "stopped"}
Terminal == {"completed", "failed", "stopped"}

\* no row stored for the key
NoRecord ==
    [exists |-> FALSE, status |-> "None", current_row |-> PyNone, total_rows |-> PyNone,
     error_message |-> "None", stop_call |-> 0]

\* Database.insert_job_execution: INSERT OR REPLACE of the whole row
insert_job_execution(r, status, stop_call, error_message, current_row, total_rows) ==
    [exists |-> TRUE, status |-> status, current_row |-> current_row,
     total_rows |-> total_rows, error_message |-> error_message, stop_call |-> stop_call]

\* an update that writes every argument, None included
UpdateEveryField(r, current_row, total_rows, status, error_message, stop_call) ==
    IF ~r.exists THEN r
    ELSE [exists |-> TRUE, status |-> status, current_row |-> current_row,
          total_rows |-> total_rows, error_message |-> error_message,
          stop_call |-> stop_call]

\* Database.update_job_execution: only the arguments that are not None are set
update_job_execution(r, current_row, total_rows, status, error_message, stop_call) ==
    IF ~r.exists THEN r
    ELSE [exists |-> TRUE,
          status |-> IF status # "None" THEN status ELSE r.status,
          current_row |-> IF current_row # PyNone THEN current_row ELSE r.current_row,
          total_rows |-> IF total_rows # PyNone THEN total_rows ELSE r.total_rows,
          error_message |-> IF error_message # "None" THEN error_message ELSE r.error_message,
          stop_call |-> IF stop_call # PyNone THEN stop_call ELSE r.stop_call]

\* a derivation that looks at the rows before it looks at stop_call
CompletedFirst(stop_call, current_row, total_rows) ==
    IF current_row # PyNone /\ total_rows # PyNone /\ current_row >= total_rows
    THEN "completed"
    ELSE IF stop_call = 1 THEN "stopped" ELSE "running"

\* the status write_progress derives when it is given none
DerivedStatus(stop_call, current_row, total_rows) ==
    IF stop_call = 1 THEN "stopped"
    ELSE IF current_row # PyNone /\ total_rows # PyNone /\ current_row >= total_rows
         THEN "completed" ELSE "running"

\* write_progress: update of a stored row, insert of a new one
write_progress(r, status, stop_call, current_row, total_rows, error_message) ==
    LET st == IF status = "None" THEN DerivedStatus(stop_call, current_row, total_rows)
              ELSE status
    IN IF r.exists
       THEN update_job_execution(r, current_row, total_rows, st, error_message, stop_call)
       ELSE insert_job_execution(r, st, stop_call, error_message, current_row, total_rows)

\* get_job_execution(job_id, step_id) of the API layer: the stored row, if any
get_job_execution(r) == r

(***************************************************************************)
(* Sitemap discovery (sitemap_parser.py).  A site is a set of sitemap      *)
(* documents: what each sitemap URL serves, the child sitemaps it lists    *)
(* and the page URLs it lists.                                             *)
(***************************************************************************)
SitemapIds == 0..MaxSitemap

\* urljoin(base_url, "/sitemap_index.xml"), "/sitemap.xml", "/sitemapindex.xml"
FallbackSitemaps == << 0, 1, 2 >>

\* max_depth=2 of get_urls_from_sitemap
max_depth == 2

\* sitemap_limit=10, the default of parse_html_sitemap
DefaultSitemapLimit == 10

\* what a sitemap URL serves:
\*   unreachable      the fetch fails or gives fewer than 10 characters
\*   garbage          XML that does not parse, and no table for the HTML parser
\*   urlset           an XML <urlset>
\*   embedded_urlset  an HTML page with a <urlset> in the XML viewer's div
\*   sitemapindex     an XML <sitemapindex>
\*   embedded_index   an HTML page with a <sitemapindex> in the XML viewer's div
\*   html             an HTML page with a table of page links and .xml links
\*   text             content that does not start with "<", with such a table
\*   malformed        XML that does not parse, with such a table
DocKinds ==
    {"unreachable", "garbage", "urlset", "embedded_urlset", "sitemapindex", "embedded_index",
     "html", "text", "malformed"}

\* the documents of a site w: the kind of a sitemap URL is chosen per residue
\* of the URL, every index lists the next w.fanout sitemap URLs (so that
\* indexes reference each other in cycles), every URL set lists one page
DocKind(w, d) == w.kinds[d % 3]
DocChildren(w, d) == [k \in 1..w.fanout |-> (d + k) % (MaxSitemap + 1)]
DocPages(w, d) == << d >>

\* the state of one discovery pass as the calls thread it: visited_sitemaps of
\* the running top-level call, the number of fetches of every sitemap URL,
\* the greatest depth a fetch happened at, the page URLs returned so far,
\* the greatest number of children one index was recursed into, and the
\* sitemap_limit arguments the calls were given
NoCalls ==
    [visited |-> {}, fetches |-> [d \in SitemapIds |-> 0], deepest |-> PyNone, urls |-> << >>,
     widest |-> 0, limits |-> {}]

\* a depth check that never stops the recursion
NoDepthGuard(depth) == FALSE

\* if depth > max_depth: return []
DepthExceeded(depth) == depth > max_depth

\* a failed fetch that empties the list of the whole pass
FailureDropsAll(st) == [st EXCEPT !.urls = << >>]

\* if not content or len(content.strip()) < 10: return [] (the caller extends
\* its list by nothing), and the same for a document nothing can be parsed from
EmptyResult(st) == st

\* sitemaps[:sitemap_limit]
Limited(children, limit) == SubSeq(children, 1, min(Len(children), limit))

\* a check that finds no sitemap URL in visited_sitemaps
NeverVisited(d, visited) == FALSE

\* if sitemap_url in visited_sitemaps: return []
AlreadyVisited(d, visited) == d \in visited

RECURSIVE get_urls_from_sitemap(_, _, _, _, _)
RECURSIVE RecurseInto(_, _, _, _, _)

\* for child in children: urls.extend(get_urls_from_sitemap(child, depth + 1, ...))
RecurseInto(w, children, depth, limit, st) ==
    IF children = << >> THEN st
    ELSE RecurseInto(w, Tail(children), depth, limit,
                     get_urls_from_sitemap(w, Head(children), depth + 1, limit, st))

\* the <sitemapindex> branch, of the XML and of the embedded XML
parse_sitemapindex(w, d, depth, limit, st) ==
    LET children == Limited(DocChildren(w, d), limit)
    IN RecurseInto(w, children, depth, limit,
                   [st EXCEPT !.widest = max(@, Len(children))])

\* parse_html_sitemap: the page links of the table, then the .xml links
parse_html_sitemap(w, d, depth, limit, st) ==
    LET children == Limited(DocChildren(w, d), limit)
    IN RecurseInto(w, children, depth, limit,
                   [st EXCEPT !.urls = @ \o DocPages(w, d),
                              !.widest = max(@, Len(children))])

get_urls_from_sitemap(w, d, depth, limit, st) ==
    LET called == [st EXCEPT !.limits = @ \cup {limit}]
    IN IF DepthExceeded(depth) THEN called
       ELSE IF AlreadyVisited(d, called.visited) THEN called
       ELSE LET fetched == [called EXCEPT !.visited = @ \cup {d},
                                          !.fetches[d] = @ + 1,
                                          !.deepest = max(@, depth)]
                kind == DocKind(w, d)
            IN CASE kind \in {"unreachable", "garbage"} -> EmptyResult(fetched)
                 [] kind \in {"urlset", "embedded_urlset"} ->
                        [fetched EXCEPT !.urls = @ \o DocPages(w, d)]
                 [] kind \in {"sitemapindex", "embedded_index"} ->
                        parse_sitemapindex(w, d, depth, limit, fetched)
                 [] kind \in {"html", "malformed"} ->
                        parse_html_sitemap(w, d, depth, limit, fetched)
                 [] kind = "text" ->
                        parse_html_sitemap(w, d, depth, DefaultSitemapLimit, fetched)

\* no discovery pass under way
NoDiscovery ==
    [pc |-> "none", web |-> [kinds |-> << >>, fanout |-> 0], robots |-> << >>,
     sitemap_limit |-> 0, todo |-> << >>, calls |-> NoCalls]

\* no call of _filter_and_sort_urls under way
NoRanking == [pc |-> "none", seed |-> base_url, input |-> << >>, output |-> << >>]

(***************************************************************************)
(* extract_emails_from_text (email_extractor.py).  An address is a small   *)
(* integer standing for a match of EMAIL_REGEX; what the filter reads from *)
(* it is the part after the "@", the list of its pieces, a subdomain       *)
(* prefix being a piece of its own.                                        *)
(***************************************************************************)
AddressIds == 0..MaxAddress

\* the part of the address after the "@"
AddressDomain(e) ==
    CASE e = 1 -> << "example.com" >>
      [] e = 2 -> << "Example.COM" >>
      [] e = 3 -> << "mail.", "example.com" >>
      [] e = 4 -> << "example.me" >>
      [] e = 5 -> << "test.com" >>
      [] e = 6 -> << "notexample.com" >>
      [] OTHER -> << "mydomain.com" >>

EXAMPLE_DOMAINS == {"example.com", "example.org", "example.net", "test.com", "sample.com"}

\* email.lower().endswith("@" + domain): the lowered part after the "@" is
\* the domain itself
EndsWithAtDomain(e, domain) ==
    [i \in DOMAIN AddressDomain(e) |-> Lower(AddressDomain(e)[i])] = << domain >>

\* set(EMAIL_REGEX.findall(text)) without the addresses of EXAMPLE_DOMAINS
extract_emails_from_text(matches) ==
    {e \in Range(matches) : ~ \E domain \in EXAMPLE_DOMAINS : EndsWithAtDomain(e, domain)}

\* no call of extract_emails_from_text under way
NoExtraction == [pc |-> "none", matches |-> << >>, output |-> {}]

\* no Database with-block under way
NoLedger == [pc |-> "none"]

\* largest row number passed as current_row or total_rows
MaxRow == 1

\* the (job_id, step_id) keys of the job_executions table
LedgerKeys == {"job1", "job2"}

\* no row of job_executions for the key
NoRow == [rec |-> NoRecord, input |-> "None", updated_at |-> "None"]

\* what a key holds when the call starts: nothing, or a row an earlier call
\* inserted (a running job, a failed one)
StoredRows ==
    { NoRow,
      [rec |-> insert_job_execution(NoRecord, "running", 0, "None", 0, MaxRow),
       input |-> "old", updated_at |-> "earlier"],
      [rec |-> insert_job_execution(NoRecord, "failed", 1, "boom", PyNone, PyNone),
       input |-> "old", updated_at |-> "earlier"] }

\* the arguments of the call: None or a value for each optional one
CallArgs ==
    [status : {"None", "running", "failed"}, stop_call : {PyNone, 0, 1},
     current_row : {PyNone} \cup (0..MaxRow), total_rows : {PyNone, MaxRow},
     error_message : {"None", "boom"}]

\* the row INSERT OR REPLACE leaves for the key: every column from the
\* arguments, updated_at = CURRENT_TIMESTAMP
InsertRow(row, a) ==
    [rec |-> insert_job_execution(row.rec, a.status, a.stop_call, a.error_message,
                                  a.current_row, a.total_rows),
     input |-> "new", updated_at |-> "now"]

\* the row UPDATE ... WHERE job_id = ? AND step_id = ? leaves: no row, no change
UpdateRow(row, a) ==
    IF row.rec.exists
    THEN [row EXCEPT !.rec = update_job_execution(row.rec, a.current_row, a.total_rows,
                                                  a.status, a.error_message, a.stop_call),
                     !.updated_at = "now"]
    ELSE row

\* the row _write_to_db leaves when get_job_execution returned seen
WriteProgressRow(row, seen, a) ==
    [rec |-> write_progress(seen, a.status, a.stop_call, a.current_row, a.total_rows,
                            a.error_message),
     input |-> IF seen.exists THEN row.input ELSE "new",
     updated_at |-> "now"]

\* an exit of the with block that commits whatever happened in the block
CommitOnException(exc_type, committed, working) == working

\* Database.__exit__: commit if the block ended normally, rollback otherwise
Database_exit(exc_type, committed, working) ==
    IF exc_type = "None" THEN working ELSE committed

\* no call of the database layer made yet
NoCall ==
    [op |-> "none", key |-> "None", outcome |-> "ok", existed |-> FALSE, inserts |-> 0,
     updates |-> 0, logged |-> FALSE, raised |-> "None"]

\* no call of poll_job_progress under way
NoPoller == [pc |-> "none"]

\* largest max_retries argument of poll_job_progress
MaxRetries == 3

\* what one GET of /progress/<job_id> can give: a 200 answer with one of the
\* four statuses or without a status, an answer with another code, or a
\* requests.RequestException
Responses == Statuses \cup {"None", "non200", "exception"}

\* progress.get("error_message") of a 200 answer
ErrorMessageOf(response) == IF response = "failed" THEN "boom" ELSE "None"

\* a loop that goes round once more than max_retries
OneMoreAttempt(attempt, max_retries) == attempt <= max_retries

\* for attempt in range(max_retries)
MoreAttempts(attempt, max_retries) == attempt < max_retries

\* the dictionary returned for a terminal answer
TerminalResult(response) ==
    [status |-> response, progress |-> response,
     error |-> IF response # "completed" THEN ErrorMessageOf(response) ELSE "None"]

\* the dictionary returned after the loop
RetriesExhausted(max_retries) ==
    [status |-> "failed", progress |-> "None",
     error |-> << "Progress check failed after", max_retries, "attempts" >>]

\* no job appending to the result file
NoResults == [pc |-> "none"]

\* no thread at a Database with-block
NoDbLock == [pc |-> "none"]

\* largest number of threads that use the database at once
MaxDbThreads == 3

\* largest number of with-blocks one thread enters
MaxBlocks == 2

\* largest number of scrape jobs whose threads end together
MaxJobs == 3

\* the record scrape_task appends for its job
ResultOf(j) == [job_id |-> j, input |-> "url", emails |-> {j}]

\* json.load of the result file: its list, or [] when the file is missing or
\* is not a JSON document (FileNotFoundError, JSONDecodeError)
LoadResults(file) == IF file.state = "json" THEN file.content ELSE << >>

(***************************************************************************)
(* State.                                                                  *)
(***************************************************************************)
VARIABLES
    max_pages_arg,     \* the max_pages the job was started with (PyNone: not given)
    max_pages,         \* EmailScraper.max_pages
    max_threads,       \* EmailScraper.max_threads, the size of the worker pool
    pc,                \* where the job's thread is in scrape_task / EmailScraper.run
    manager,           \* EmailScraper.manager is set
    primary,           \* the primary browser session: "none", "open", "closed" (close was called)
    urls_to_visit,     \* EmailScraper.urls_to_visit
    total_urls,        \* EmailScraper.total_urls
    visited_urls,      \* EmailScraper.visited_urls
    all_emails,        \* EmailScraper.all_emails
    progress_counter,  \* EmailScraper.progress_counter
    exc,               \* the message of the exception run's handler has caught
    tasks,             \* the futures of executor.map, in submission order
    rec,               \* the job_executions row of (job_id, "email_scrape")
    stop_file,         \* temp/stop_email_scrape.txt exists
    active,            \* job_id is a key of active_jobs
    stop_pc,           \* where the stop request for this job is in stop_scrape
    stop_progress,     \* the row stop_scrape has read (its local progress)
    run_result,        \* how run ended: "None" (running), "returned", "raised"
    returned,          \* the emails run hands to its return statement
    lock,              \* EmailScraper.lock: the worker that holds it, 0 when it is free
    discovery,         \* a sitemap discovery pass of _discover_urls, on its own
    ranking,           \* a call of _filter_and_sort_urls, on its own
    extraction,        \* a call of extract_emails_from_text, on its own
    ledger,            \* a Database with-block on the job_executions table, on its own
    poller,            \* a call of poll_job_progress, on its own
    results,           \* the result file and the jobs that append to it, on their own
    db_lock,           \* Database._lock and the threads that enter with-blocks, on their own
    hist               \* what has happened: the calls of _setup_driver and
                       \* _discover_urls, the navigations of each URL, whether the
                       \* stop signal appeared during Scraping, whether
                       \* _scrape_pages read it set, and the row as run's last
                       \* checkpoint left it

vars ==
    << max_pages_arg, max_pages, max_threads, pc, manager, primary, urls_to_visit, total_urls,
       visited_urls, all_emails, progress_counter, exc, tasks, rec, stop_file, active,
       stop_pc, stop_progress, run_result, returned, lock, discovery, ranking, extraction,
       ledger, poller, results, db_lock, hist >>

jobVars ==
    << max_pages_arg, max_pages, max_threads, manager, primary, urls_to_visit, total_urls,
       visited_urls, all_emails, progress_counter, run_result, returned >>

stopVars == << stop_pc, stop_progress >>

\* the functions checked on their own, which a job's run leaves alone
partVars == << discovery, ranking, extraction, ledger, poller, results, db_lock >>

\* lists of at most n URLs
SeqsUpTo(n) == UNION {[1..k -> UrlIds] : k \in 0..n}

\* a constructor that stores one page more than it is given
MaxPagesPlusOne(arg) == IF arg = PyNone THEN PyNone ELSE arg + 1

\* EmailScraper.__init__: self.max_pages = max_pages
InitMaxPages(arg) == arg

\* a submission of the whole ranked list
DispatchEverything(urls, mp) == urls

\* self.urls_to_visit[:self.max_pages]
Dispatched(urls, mp) == SubSeq(urls, 1, min(Len(urls), mp))

\* a future of the pool: its URL, where its worker is, the worker's local emails,
\* the worker's own session and the exception the worker is raising
NewTask(u) ==
    [url |-> u, pc |-> "queued", emails |-> {}, driver |-> "none", exc |-> "None"]

\* the job is in its Scraping phase: the workers are submitted and not yet joined
Scraping == pc \in {"scraping", "drain"}

TaskRunning(t) == t.pc \in {"check", "get_driver", "scrape", "record", "close"}
TaskReturned(t) == t.pc \in {"skipped_stop", "skipped_budget", "done"}

Init ==
    /\ max_pages_arg \in (1..MaxPagesArg) \cup {PyNone}
    /\ max_pages = InitMaxPages(max_pages_arg)
    /\ max_threads \in 1..MaxThreads
    /\ pc = "setup"
    /\ manager = FALSE
    /\ primary = "none"
    /\ urls_to_visit = << base_url >>
    /\ total_urls = 0
    /\ visited_urls = {}
    /\ all_emails = {}
    /\ progress_counter = 0
    /\ exc = "None"
    /\ tasks = << >>
    /\ rec = NoRecord
    /\ stop_file = FALSE
    /\ active = TRUE
    /\ stop_pc = "idle"
    /\ stop_progress = NoRecord
    /\ run_result = "None"
    /\ returned = {}
    /\ lock = 0
    /\ discovery = NoDiscovery
    /\ ranking = NoRanking
    /\ extraction = NoExtraction
    /\ ledger = NoLedger
    /\ poller = NoPoller
    /\ results = NoResults
    /\ db_lock = NoDbLock
    /\ hist = [setup_calls |-> 0, discover_calls |-> 0, nav |-> [u \in UrlIds |-> 0],
               flag_in_scraping |-> FALSE, stop_observed |-> FALSE,
               run_checkpoint |-> NoRecord]

(***************************************************************************)
(* EmailScraper.run                                                        *)
(***************************************************************************)
\* what WebDriverManager(...) followed by get_driver() gives: a driver, or the
\* exception of the browser start (setup_driver has no handler)
DriverOutcomes == {"driver", "raise"}

\* what WebDriverManager.close does with driver.quit(): quits, swallows a
\* WebDriverException, lets any other exception through
CloseOutcomes == {"quit", "WebDriverException", "OtherException"}

\* the checkpoints of _scrape_worker and _scrape_pages (status="running")
RunningCheckpoint(r, current_row, total_rows) ==
    write_progress(r, "running", 0, current_row, total_rows, "None")

\* the terminal checkpoint of _scrape_pages (status="completed")
CompletedCheckpoint(r, total_rows) ==
    write_progress(r, "completed", 0, PyNone, total_rows, "None")

\* a failed checkpoint that drops the exception's message
FailedWithoutMessage(r, total_rows, message) ==
    write_progress(r, "failed", 0, PyNone, total_rows, "None")

\* the checkpoint of run's handler (status="failed", error_message=str(e))
FailedCheckpoint(r, total_rows, message) ==
    write_progress(r, "failed", 0, PyNone, total_rows, message)

\* _setup_driver
SetupDriver ==
    /\ pc = "setup"
    /\ \E o \in DriverOutcomes :
         IF o = "driver"
         THEN /\ manager' = TRUE
              /\ primary' = "open"
              /\ pc' = "discover"
              /\ exc' = exc
         ELSE /\ pc' = "except"
              /\ exc' = "session not created"
              /\ UNCHANGED << manager, primary >>
    /\ hist' = [hist EXCEPT !.setup_calls = @ + 1]
    /\ UNCHANGED << partVars, lock, max_pages_arg, max_pages, max_threads, urls_to_visit, total_urls, visited_urls,
                    all_emails, progress_counter, tasks, rec, stop_file, active,
                    stopVars, run_result, returned >>

\* _discover_urls: the page URLs of the sitemaps are appended to the seed
DiscoverUrls ==
    /\ pc = "discover"
    /\ \E found \in SeqsUpTo(MaxDiscovered) :
         /\ urls_to_visit' = urls_to_visit \o found
         /\ pc' = "prioritize"
    /\ hist' = [hist EXCEPT !.discover_calls = @ + 1]
    /\ UNCHANGED << partVars, lock, max_pages_arg, max_pages, max_threads, manager, primary, total_urls, visited_urls,
                    all_emails, progress_counter, exc, tasks, rec, stop_file, active,
                    stopVars, run_result, returned >>

\* _discover_urls raising (the clean-up of an HTML robots.txt runs outside any
\* handler)
DiscoverRaise ==
    /\ pc = "discover"
    /\ pc' = "except"
    /\ exc' = "discovery error"
    /\ hist' = [hist EXCEPT !.discover_calls = @ + 1]
    /\ UNCHANGED << partVars, lock, jobVars, tasks, rec, stop_file, active, stopVars >>

\* _filter_and_sort_urls; min(len, None) raises when max_pages was not given
FilterAndSort ==
    /\ pc = "prioritize"
    /\ urls_to_visit' = sort_urls_by_email_likelihood(filtered_urls(urls_to_visit, base_url))
    /\ IF max_pages = PyNone
       THEN /\ pc' = "except"
            /\ exc' = "TypeError: min"
            /\ total_urls' = total_urls
       ELSE /\ pc' = "scrape_start"
            /\ exc' = exc
            /\ total_urls' = TotalUrls(Len(urls_to_visit'), max_pages)
    /\ UNCHANGED << partVars, lock, max_pages_arg, max_pages, max_threads, manager, primary, visited_urls, all_emails,
                    progress_counter, tasks, rec, stop_file, active, stopVars,
                    run_result, returned, hist >>

\* _scrape_pages: the first checkpoint, then executor.map submits every URL
ScrapePagesStart ==
    /\ pc = "scrape_start"
    /\ rec' = RunningCheckpoint(rec, 0, total_urls)
    /\ hist' = [hist EXCEPT !.run_checkpoint = rec']
    /\ tasks' = [i \in 1..Len(Dispatched(urls_to_visit, max_pages)) |->
                   NewTask(Dispatched(urls_to_visit, max_pages)[i])]
    /\ pc' = "scraping"
    /\ UNCHANGED << partVars, lock, jobVars, exc, stop_file, active, stopVars >>

(***************************************************************************)
(* EmailScraper._scrape_worker, one invocation per submitted URL           *)
(***************************************************************************)
SetTask(i, t) == [tasks EXCEPT ![i] = t]

\* a worker that goes on whatever the stop signal
IgnoreStopSignal(flag) == "check"

\* if check_stop_signal(self.step_id): return
AfterStopCheck(flag) == IF flag THEN "skipped_stop" ELSE "check"

\* a pool that starts a thread for every future
PoolUnbounded(running, mt) == TRUE

\* ThreadPoolExecutor(max_workers=self.max_threads): a future starts when
\* fewer than max_workers threads are busy
PoolHasIdleThread(running, mt) == running < mt

\* a pool thread takes the next future of the queue; the worker reads the stop
\* signal and returns when it is set
WorkerStart(i) ==
    /\ pc = "scraping"
    /\ tasks[i].pc = "queued"
    /\ \A j \in 1..(i - 1) : tasks[j].pc # "queued"
    /\ PoolHasIdleThread(Cardinality({j \in DOMAIN tasks : TaskRunning(tasks[j])}), max_threads)
    /\ tasks' = SetTask(i, [tasks[i] EXCEPT !.pc = AfterStopCheck(stop_file)])
    /\ UNCHANGED << partVars, lock, jobVars, pc, exc, rec, stop_file, active, stopVars, hist >>

\* the budget is used up
BudgetReached(visited, mp) == Cardinality(visited) >= mp

\* a critical section that ends with the mutex still held by the worker
KeepLock(i) == i

\* the end of a with self.lock block: the mutex is free
ReleaseLock(i) == 0

\* the first critical section: already visited, or the budget is used up
WorkerCheck(i) ==
    /\ tasks[i].pc = "check"
    /\ lock = 0
    /\ lock' = ReleaseLock(i)
    /\ tasks' = SetTask(i, [tasks[i] EXCEPT !.pc =
                   IF tasks[i].url \in visited_urls \/ BudgetReached(visited_urls, max_pages)
                   THEN "skipped_budget" ELSE "get_driver"])
    /\ UNCHANGED << partVars, jobVars, pc, exc, rec, stop_file, active, stopVars, hist >>

\* a manager without a driver: the worker logs the failure and returns
DriverMissing(t) == [t EXCEPT !.pc = "done"]

\* a browser that does not start: WebDriverManager(...) raises out of the
\* worker (setup_driver has no handler, so get_driver never returns None)
DriverFailure(t) == [t EXCEPT !.pc = "raised", !.exc = "session not created"]

\* the worker's own WebDriverManager; its constructor runs outside the try
WorkerGetDriver(i) ==
    /\ tasks[i].pc = "get_driver"
    /\ \E o \in DriverOutcomes :
         tasks' = SetTask(i,
             IF o = "driver"
             THEN [tasks[i] EXCEPT !.pc = "scrape", !.driver = "open"]
             ELSE DriverFailure(tasks[i]))
    /\ UNCHANGED << partVars, lock, jobVars, pc, exc, rec, stop_file, active, stopVars, hist >>

\* what extract_emails_from_page gives for a page: its emails, or nothing when
\* the navigation fails
PageResults(u) == {PageEmails(u), {}}

\* emails = scrape_page(driver, url) returning the page's emails, the
\* two-argument contract of tests/test_backend_scripts_scraping_page_scraper.py
WorkerScrape(i) ==
    /\ tasks[i].pc = "scrape"
    /\ \E found \in PageResults(tasks[i].url) :
         tasks' = SetTask(i, [tasks[i] EXCEPT !.pc = "record", !.emails = found])
    /\ hist' = [hist EXCEPT !.nav[tasks[i].url] = @ + 1]
    /\ UNCHANGED << partVars, lock, jobVars, pc, exc, rec, stop_file, active, stopVars >>

\* a worker whose exception leaves without the finally clause
SkipClose(t, message) == [t EXCEPT !.pc = "raised", !.exc = message]

\* try: ... finally: thread_manager.close() when the try block raises
FinallyClose(t, message) == [t EXCEPT !.pc = "close", !.exc = message]

\* emails = scrape_page(driver, url) raising: page_scraper.scrape_page takes
\* five positional arguments, the call is a TypeError before any navigation
WorkerScrapeRaise(i) ==
    /\ tasks[i].pc = "scrape"
    /\ tasks' = SetTask(i, FinallyClose(tasks[i], "TypeError: scrape_page"))
    /\ UNCHANGED << partVars, lock, jobVars, pc, exc, rec, stop_file, active, stopVars, hist >>

\* an update that replaces the accumulator by the page's emails
ReplaceEmails(acc, found) == found

\* self.all_emails.update(emails)
MergeEmails(acc, found) == acc \cup found

\* the budget check of the second critical section
UnderBudget(visited, mp) == Cardinality(visited) < mp

\* the second critical section: record the page and write the checkpoint
WorkerRecord(i) ==
    /\ tasks[i].pc = "record"
    /\ lock = 0
    /\ lock' = ReleaseLock(i)
    /\ IF UnderBudget(visited_urls, max_pages)
       THEN /\ visited_urls' = visited_urls \cup {tasks[i].url}
            /\ all_emails' = MergeEmails(all_emails, tasks[i].emails)
            /\ progress_counter' = progress_counter + 1
            /\ rec' = RunningCheckpoint(rec, progress_counter', total_urls)
       ELSE UNCHANGED << visited_urls, all_emails, progress_counter, rec >>
    /\ tasks' = SetTask(i, [tasks[i] EXCEPT !.pc = "close"])
    /\ UNCHANGED << partVars, max_pages_arg, max_pages, max_threads, manager, primary, urls_to_visit, total_urls,
                    run_result, returned, pc, exc, stop_file, active, stopVars, hist >>

\* finally: thread_manager.close()
WorkerClose(i) ==
    /\ tasks[i].pc = "close"
    /\ \E o \in CloseOutcomes :
         tasks' = SetTask(i,
             CASE o = "quit" ->
                    [tasks[i] EXCEPT !.driver = "closed",
                                     !.pc = IF tasks[i].exc = "None" THEN "done" ELSE "raised"]
               [] o = "WebDriverException" ->
                    [tasks[i] EXCEPT !.driver = "closed",
                                     !.pc = IF tasks[i].exc = "None" THEN "done" ELSE "raised"]
               [] OTHER ->
                    [tasks[i] EXCEPT !.driver = "closed", !.pc = "raised",
                                     !.exc = "quit error"])
    /\ UNCHANGED << partVars, lock, jobVars, pc, exc, rec, stop_file, active, stopVars, hist >>

(***************************************************************************)
(* EmailScraper._scrape_pages after the submission, and the end of run     *)
(***************************************************************************)
\* list(executor.map(...)) has every result and the pool has shut down
JoinAll ==
    /\ pc = "scraping"
    /\ \A i \in DOMAIN tasks : TaskReturned(tasks[i])
    /\ pc' = "final_check"
    /\ UNCHANGED << partVars, lock, jobVars, exc, tasks, rec, stop_file, active, stopVars, hist >>

\* the results are read in submission order: the first future that raised
\* re-raises in the coordinator, and the futures not yet started are cancelled
JoinRaise ==
    /\ pc = "scraping"
    /\ \E k \in DOMAIN tasks :
         /\ tasks[k].pc = "raised"
         /\ \A j \in 1..(k - 1) : TaskReturned(tasks[j])
         /\ exc' = tasks[k].exc
         /\ tasks' = [i \in DOMAIN tasks |->
                        IF tasks[i].pc = "queued" THEN [tasks[i] EXCEPT !.pc = "cancelled"]
                        ELSE tasks[i]]
    /\ pc' = "drain"
    /\ UNCHANGED << partVars, lock, jobVars, rec, stop_file, active, stopVars, hist >>

\* the with block of the pool waits for the workers still running
Drain ==
    /\ pc = "drain"
    /\ \A i \in DOMAIN tasks : ~TaskRunning(tasks[i])
    /\ pc' = "except"
    /\ UNCHANGED << partVars, lock, jobVars, exc, tasks, rec, stop_file, active, stopVars, hist >>

\* if not check_stop_signal(step_id): the read of the stop signal
FinalCheck ==
    /\ pc = "final_check"
    /\ IF stop_file
       THEN /\ pc' = "cleanup"
            /\ returned' = all_emails
            /\ hist' = [hist EXCEPT !.stop_observed = TRUE]
       ELSE /\ pc' = "write_completed"
            /\ returned' = returned
            /\ hist' = hist
    /\ UNCHANGED << partVars, lock, max_pages_arg, max_pages, max_threads, manager, primary,
                    urls_to_visit, total_urls, visited_urls, all_emails,
                    progress_counter, run_result, exc, tasks, rec, stop_file, active,
                    stopVars >>

\* the terminal checkpoint of a run that saw no stop signal, and return
WriteCompleted ==
    /\ pc = "write_completed"
    /\ rec' = CompletedCheckpoint(rec, total_urls)
    /\ hist' = [hist EXCEPT !.run_checkpoint = rec']
    /\ returned' = all_emails
    /\ pc' = "cleanup"
    /\ UNCHANGED << partVars, lock, max_pages_arg, max_pages, max_threads, manager, primary,
                    urls_to_visit, total_urls, visited_urls, all_emails,
                    progress_counter, run_result, exc, tasks, stop_file, active,
                    stopVars >>

\* except Exception as e: the failed checkpoint, and return
Except ==
    /\ pc = "except"
    /\ rec' = FailedCheckpoint(rec, total_urls, exc)
    /\ hist' = [hist EXCEPT !.run_checkpoint = rec']
    /\ returned' = all_emails
    /\ pc' = "cleanup"
    /\ UNCHANGED << partVars, lock, max_pages_arg, max_pages, max_threads, manager, primary,
                    urls_to_visit, total_urls, visited_urls, all_emails,
                    progress_counter, run_result, exc, tasks, stop_file, active,
                    stopVars >>

\* finally: _cleanup closes the primary manager when there is one
Cleanup ==
    /\ pc = "cleanup"
    /\ IF manager
       THEN \E o \in CloseOutcomes :
              /\ primary' = "closed"
              /\ run_result' = IF o \in {"quit", "WebDriverException"} THEN "returned"
                               ELSE "raised"
       ELSE /\ run_result' = "returned"
            /\ primary' = primary
    /\ pc' = "run_done"
    /\ UNCHANGED << partVars, lock, max_pages_arg, max_pages, max_threads, manager, urls_to_visit,
                    total_urls, visited_urls, all_emails, progress_counter, returned,
                    exc, tasks, rec, stop_file, active, stopVars, hist >>

(***************************************************************************)
(* scrape_task of start_scrape, around run                                 *)
(***************************************************************************)
\* the result is appended to the result file; an exception out of
\* scrape_emails is written as a failed checkpoint
ScrapeTaskEnd ==
    /\ pc = "run_done"
    /\ rec' = IF run_result = "raised"
              THEN write_progress(rec, "failed", 1, PyNone, max_pages_arg, "quit error")
              ELSE rec
    /\ pc' = "pop"
    /\ UNCHANGED << partVars, lock, jobVars, exc, tasks, stop_file, active, stopVars, hist >>

\* finally: active_jobs.pop(job_id, None)
ScrapeTaskPop ==
    /\ pc = "pop"
    /\ active' = FALSE
    /\ pc' = "finished"
    /\ UNCHANGED << partVars, lock, jobVars, exc, tasks, rec, stop_file, stopVars, hist >>

(***************************************************************************)
(* stop_scrape                                                             *)
(***************************************************************************)
\* the request is refused unless the job is active and has a stored row
StopBegin ==
    /\ stop_pc = "idle"
    /\ stop_pc' = IF active /\ get_job_execution(rec).exists THEN "create" ELSE "refused"
    /\ UNCHANGED << partVars, lock, jobVars, pc, exc, tasks, rec, stop_file, active, stop_progress, hist >>

\* the stop signal file of the step is created
StopCreateFile ==
    /\ stop_pc = "create"
    /\ stop_file' = TRUE
    /\ hist' = IF stop_file THEN hist ELSE [hist EXCEPT !.flag_in_scraping = Scraping]
    /\ stop_pc' = "read"
    /\ UNCHANGED << partVars, lock, jobVars, pc, exc, tasks, rec, active, stop_progress >>

\* progress = get_job_execution(job_id, step_id)
StopRead ==
    /\ stop_pc = "read"
    /\ stop_progress' = get_job_execution(rec)
    /\ stop_pc' = "write"
    /\ UNCHANGED << partVars, lock, jobVars, pc, exc, tasks, rec, stop_file, active, hist >>

\* the stopped checkpoint, with the counters of the row read before
StopWrite ==
    /\ stop_pc = "write"
    /\ rec' = IF stop_progress.exists
              THEN write_progress(rec, "stopped", 1, stop_progress.current_row,
                                  stop_progress.total_rows, "None")
              ELSE rec
    /\ stop_pc' = "join"
    /\ UNCHANGED << partVars, lock, jobVars, pc, exc, tasks, stop_file, active, stop_progress, hist >>

\* join(timeout=10) ends with the thread or with the timeout; the job is
\* taken out of active_jobs either way
StopJoin ==
    /\ stop_pc = "join"
    /\ active' = FALSE
    /\ stop_pc' = "done"
    /\ UNCHANGED << partVars, lock, jobVars, pc, exc, tasks, rec, stop_file, stop_progress, hist >>

\* stop_scrape for another active job of the step "email_scrape": the same file
StopOtherJob ==
    /\ ~stop_file
    /\ stop_file' = TRUE
    /\ hist' = [hist EXCEPT !.flag_in_scraping = Scraping]
    /\ UNCHANGED << partVars, lock, jobVars, pc, exc, tasks, rec, active, stopVars >>

Next ==
    \/ SetupDriver
    \/ DiscoverUrls
    \/ DiscoverRaise
    \/ FilterAndSort
    \/ ScrapePagesStart
    \/ \E i \in DOMAIN tasks : WorkerStart(i)
    \/ \E i \in DOMAIN tasks : WorkerCheck(i)
    \/ \E i \in DOMAIN tasks : WorkerGetDriver(i)
    \/ \E i \in DOMAIN tasks : WorkerScrape(i)
    \/ \E i \in DOMAIN tasks : WorkerScrapeRaise(i)
    \/ \E i \in DOMAIN tasks : WorkerRecord(i)
    \/ \E i \in DOMAIN tasks : WorkerClose(i)
    \/ JoinAll
    \/ JoinRaise
    \/ Drain
    \/ FinalCheck
    \/ WriteCompleted
    \/ Except
    \/ Cleanup
    \/ ScrapeTaskEnd
    \/ ScrapeTaskPop
    \/ StopBegin
    \/ StopCreateFile
    \/ StopRead
    \/ StopWrite
    \/ StopJoin
    \/ StopOtherJob

Spec == Init /\ [][Next]_vars

(***************************************************************************)
(* A discovery pass of _discover_urls on its own, over every small site.   *)
(***************************************************************************)
\* a job that is not running
NoJob ==
    /\ max_pages_arg = 1
    /\ max_pages = InitMaxPages(max_pages_arg)
    /\ max_threads = 1
    /\ pc = "finished"
    /\ manager = FALSE
    /\ primary = "none"
    /\ urls_to_visit = << base_url >>
    /\ total_urls = 0
    /\ visited_urls = {}
    /\ all_emails = {}
    /\ progress_counter = 0
    /\ exc = "None"
    /\ tasks = << >>
    /\ rec = NoRecord
    /\ stop_file = FALSE
    /\ active = FALSE
    /\ stop_pc = "idle"
    /\ stop_progress = NoRecord
    /\ run_result = "None"
    /\ returned = {}
    /\ lock = 0
    /\ hist = [setup_calls |-> 0, discover_calls |-> 0, nav |-> [u \in UrlIds |-> 0],
               flag_in_scraping |-> FALSE, stop_observed |-> FALSE,
               run_checkpoint |-> NoRecord]

mainVars ==
    << max_pages_arg, max_pages, max_threads, pc, manager, primary, urls_to_visit,
       total_urls, visited_urls, all_emails, progress_counter, exc, tasks, rec, stop_file,
       active, stop_pc, stop_progress, run_result, returned, lock, hist >>

\* the site, the Sitemap: lines of its robots.txt (none when robots.txt cannot
\* be fetched) and the job's sitemap_limit
DiscoveryInit ==
    /\ NoJob
    /\ db_lock = NoDbLock
    /\ ranking = NoRanking
    /\ extraction = NoExtraction
    /\ ledger = NoLedger
    /\ poller = NoPoller
    /\ results = NoResults
    /\ \E kinds \in [0..2 -> DocKinds], fanout \in 1..MaxChildren,
          robots \in {<< >>} \cup {<< d >> : d \in SitemapIds},
          limit \in 1..MaxSitemapLimit :
         discovery = [pc |-> "robots", web |-> [kinds |-> kinds, fanout |-> fanout],
                      robots |-> robots, sitemap_limit |-> limit, todo |-> << >>,
                      calls |-> NoCalls]

\* sitemap_urls = get_robots_txt_urls(...); sitemap_urls.extend(the fallbacks)
GetRobotsTxtUrls ==
    /\ discovery.pc = "robots"
    /\ discovery' = [discovery EXCEPT !.todo = discovery.robots \o FallbackSitemaps,
                                      !.pc = "sitemaps"]
    /\ UNCHANGED << mainVars, db_lock, ranking, extraction, ledger, poller, results >>

\* one turn of the loop of _discover_urls: get_urls_from_sitemap(driver,
\* sitemap_url, sitemap_limit=self.sitemap_limit), with a new visited_sitemaps
DiscoverSitemap ==
    /\ discovery.pc = "sitemaps"
    /\ discovery.todo # << >>
    /\ discovery' =
         [discovery EXCEPT
            !.calls = get_urls_from_sitemap(discovery.web, Head(discovery.todo), 0,
                                            discovery.sitemap_limit,
                                            [discovery.calls EXCEPT !.visited = {}]),
            !.todo = Tail(@),
            !.pc = IF Tail(discovery.todo) = << >> THEN "done" ELSE "sitemaps"]
    /\ UNCHANGED << mainVars, db_lock, ranking, extraction, ledger, poller, results >>

DiscoveryNext == GetRobotsTxtUrls \/ DiscoverSitemap

DiscoverySpec == DiscoveryInit /\ [][DiscoveryNext]_vars

(***************************************************************************)
(* _filter_and_sort_urls on its own, over every short list of URLs and     *)
(* every seed.                                                             *)
(***************************************************************************)
RankUrlIds == 0..MaxRankUrl

RankingInit ==
    /\ NoJob
    /\ db_lock = NoDbLock
    /\ discovery = NoDiscovery
    /\ extraction = NoExtraction
    /\ ledger = NoLedger
    /\ poller = NoPoller
    /\ results = NoResults
    /\ \E seed \in RankUrlIds, k \in 0..MaxRankLen :
         \E input \in [1..k -> RankUrlIds] :
            ranking = [pc |-> "called", seed |-> seed, input |-> input, output |-> << >>]

\* _filter_and_sort_urls: self.urls_to_visit = sort_urls_by_email_likelihood(filtered_urls)
FilterAndSortUrls ==
    /\ ranking.pc = "called"
    /\ ranking' = [ranking EXCEPT
                      !.output = sort_urls_by_email_likelihood(
                                     filtered_urls(ranking.input, ranking.seed)),
                      !.pc = "returned"]
    /\ UNCHANGED << mainVars, db_lock, discovery, extraction, ledger, poller, results >>

RankingNext == FilterAndSortUrls

RankingSpec == RankingInit /\ [][RankingNext]_vars

(***************************************************************************)
(* extract_emails_from_text on its own, over every text with a few matches *)
(***************************************************************************)
ExtractionInit ==
    /\ NoJob
    /\ db_lock = NoDbLock
    /\ discovery = NoDiscovery
    /\ ranking = NoRanking
    /\ ledger = NoLedger
    /\ poller = NoPoller
    /\ results = NoResults
    /\ \E k \in 0..MaxMatches :
         \E matches \in [1..k -> AddressIds] :
            extraction = [pc |-> "called", matches |-> matches, output |-> {}]

ExtractEmailsFromText ==
    /\ extraction.pc = "called"
    /\ extraction' = [extraction EXCEPT !.output = extract_emails_from_text(extraction.matches),
                                        !.pc = "returned"]
    /\ UNCHANGED << mainVars, db_lock, discovery, ranking, ledger, poller, results >>

ExtractionNext == ExtractEmailsFromText

ExtractionSpec == ExtractionInit /\ [][ExtractionNext]_vars

(***************************************************************************)
(* The job_executions table: one call of write_progress, or one with block *)
(* of Database calls, on a table that holds the rows of earlier calls.     *)
(***************************************************************************)
LedgerInit ==
    /\ NoJob
    /\ db_lock = NoDbLock
    /\ discovery = NoDiscovery
    /\ ranking = NoRanking
    /\ extraction = NoExtraction
    /\ poller = NoPoller
    /\ results = NoResults
    /\ \E table \in [LedgerKeys -> StoredRows] :
         \E a \in CallArgs :
            ledger = [pc |-> "idle", committed |-> table, working |-> table, args |-> a,
                      dirty |-> FALSE, last |-> NoCall]

\* write_progress(job_id, step_id, ...) with its own with Database() block.
\* outcome: "ok"; "read_error", the SELECT of get_job_execution raises
\* sqlite3.Error, which get_job_execution logs and turns into None;
\* "write_error", the INSERT or UPDATE raises sqlite3.Error, which the method
\* logs and swallows; "raises", sqlite3.connect raises in __enter__, which
\* write_progress logs and swallows before any call of the layer is made
WriteProgress(k, outcome) ==
    /\ ledger.pc = "idle"
    /\ LET row == ledger.committed[k]
           seen == IF outcome = "read_error" THEN NoRecord ELSE get_job_execution(row.rec)
           called == outcome # "raises"
           table == IF outcome \in {"ok", "read_error"}
                    THEN [ledger.committed EXCEPT ![k] = WriteProgressRow(row, seen, ledger.args)]
                    ELSE ledger.committed
       IN ledger' = [ledger EXCEPT
                        !.pc = "done", !.committed = table, !.working = table,
                        !.dirty = (table # ledger.committed),
                        !.last = [op |-> "write_progress", key |-> k, outcome |-> outcome,
                                  existed |-> row.rec.exists,
                                  inserts |-> IF called /\ ~seen.exists THEN 1 ELSE 0,
                                  updates |-> IF called /\ seen.exists THEN 1 ELSE 0,
                                  logged |-> (outcome # "ok"), raised |-> "None"]]
    /\ UNCHANGED << mainVars, db_lock, discovery, ranking, extraction, poller, results >>

\* with Database() as db: __enter__ takes the class lock and connects
DbEnter ==
    /\ ledger.pc = "idle"
    /\ ledger' = [ledger EXCEPT !.pc = "block", !.last = [NoCall EXCEPT !.op = "enter"]]
    /\ UNCHANGED << mainVars, db_lock, discovery, ranking, extraction, poller, results >>

\* db.insert_job_execution(...) in the block; fail: the statement raises
\* sqlite3.Error, which the method logs and swallows
DbInsert(k, fail) ==
    /\ ledger.pc = "block"
    /\ ledger' = [ledger EXCEPT
                     !.working = IF fail THEN ledger.working
                                 ELSE [ledger.working EXCEPT
                                          ![k] = InsertRow(ledger.working[k], ledger.args)],
                     !.dirty = ledger.dirty \/ ~fail,
                     !.last = [op |-> "insert", key |-> k,
                               outcome |-> IF fail THEN "write_error" ELSE "ok",
                               existed |-> ledger.working[k].rec.exists,
                               inserts |-> 1, updates |-> 0, logged |-> fail,
                               raised |-> "None"]]
    /\ UNCHANGED << mainVars, db_lock, discovery, ranking, extraction, poller, results >>

\* db.update_job_execution(...) in the block
DbUpdate(k, fail) ==
    /\ ledger.pc = "block"
    /\ ledger' = [ledger EXCEPT
                     !.working = IF fail THEN ledger.working
                                 ELSE [ledger.working EXCEPT
                                          ![k] = UpdateRow(ledger.working[k], ledger.args)],
                     !.dirty = ledger.dirty \/ (~fail /\ ledger.working[k].rec.exists),
                     !.last = [op |-> "update", key |-> k,
                               outcome |-> IF fail THEN "write_error" ELSE "ok",
                               existed |-> ledger.working[k].rec.exists,
                               inserts |-> 0, updates |-> 1, logged |-> fail,
                               raised |-> "None"]]
    /\ UNCHANGED << mainVars, db_lock, discovery, ranking, extraction, poller, results >>

\* the end of the with block: normally, or by an exception raised in the
\* block, which __exit__ lets through after the rollback
DbExit(exc_type) ==
    /\ ledger.pc = "block"
    /\ LET table == Database_exit(exc_type, ledger.committed, ledger.working)
       IN ledger' = [ledger EXCEPT
                        !.pc = "done", !.committed = table, !.working = table,
                        !.last = [NoCall EXCEPT !.op = "exit", !.raised = exc_type]]
    /\ UNCHANGED << mainVars, db_lock, discovery, ranking, extraction, poller, results >>

LedgerNext ==
    \/ \E k \in LedgerKeys :
          \E outcome \in {"ok", "read_error", "write_error", "raises"} : WriteProgress(k, outcome)
    \/ DbEnter
    \/ \E k \in LedgerKeys : \E fail \in BOOLEAN : DbInsert(k, fail)
    \/ \E k \in LedgerKeys : \E fail \in BOOLEAN : DbUpdate(k, fail)
    \/ \E exc_type \in {"None", "ValueError"} : DbExit(exc_type)

LedgerSpec == LedgerInit /\ [][LedgerNext]_vars

(***************************************************************************)
(* poll_job_progress: one call, one action per round of its loop.          *)
(***************************************************************************)
PollInit ==
    /\ NoJob
    /\ db_lock = NoDbLock
    /\ discovery = NoDiscovery
    /\ ranking = NoRanking
    /\ extraction = NoExtraction
    /\ ledger = NoLedger
    /\ results = NoResults
    /\ \E n \in 0..MaxRetries :
         poller = [pc |-> "polling", max_retries |-> n, attempt |-> 0, responses |-> << >>,
                   result |-> [status |-> "None", progress |-> "None", error |-> "None"]]

\* one round: the GET, and the return on a terminal status of a 200 answer;
\* every other answer and a RequestException lead, after the sleep, to the
\* next round
PollRequest(response) ==
    /\ poller.pc = "polling"
    /\ MoreAttempts(poller.attempt, poller.max_retries)
    /\ poller' = IF response \in Terminal
                 THEN [poller EXCEPT !.responses = Append(@, response), !.pc = "returned",
                                     !.result = TerminalResult(response)]
                 ELSE [poller EXCEPT !.responses = Append(@, response),
                                     !.attempt = @ + 1]
    /\ UNCHANGED << mainVars, db_lock, discovery, ranking, extraction, ledger, results >>

\* the loop is over: the return after it
PollGiveUp ==
    /\ poller.pc = "polling"
    /\ ~MoreAttempts(poller.attempt, poller.max_retries)
    /\ poller' = [poller EXCEPT !.pc = "returned",
                                !.result = RetriesExhausted(poller.max_retries)]
    /\ UNCHANGED << mainVars, db_lock, discovery, ranking, extraction, ledger, results >>

PollNext ==
    \/ \E response \in Responses : PollRequest(response)
    \/ PollGiveUp

PollSpec == PollInit /\ [][PollNext]_vars

(***************************************************************************)
(* The result file results_<step_id>.json, written by the threads of the   *)
(* jobs as their runs end.                                                 *)
(***************************************************************************)
ResultsInit ==
    /\ NoJob
    /\ db_lock = NoDbLock
    /\ discovery = NoDiscovery
    /\ ranking = NoRanking
    /\ extraction = NoExtraction
    /\ ledger = NoLedger
    /\ poller = NoPoller
    /\ \E n \in 1..MaxJobs :
         results = [pc |-> "serving",
                    file |-> [state |-> "missing", content |-> << >>],
                    jobs |-> [j \in 1..n |-> [pc |-> "running", data |-> << >>]]]

\* scrape_emails has returned: the thread reads the file into data and appends
\* its record to data
ResultRead(j) ==
    /\ results.pc = "serving"
    /\ results.jobs[j].pc = "running"
    /\ results' = [results EXCEPT
                      !.jobs[j] = [pc |-> "read",
                                   data |-> Append(LoadResults(results.file), ResultOf(j))]]
    /\ UNCHANGED << mainVars, db_lock, discovery, ranking, extraction, ledger, poller >>

\* open(result_file, "w"): the file is empty until json.dump has written
ResultOpen(j) ==
    /\ results.pc = "serving"
    /\ results.jobs[j].pc = "read"
    /\ results' = [results EXCEPT !.jobs[j].pc = "opened",
                                  !.file = [state |-> "partial", content |-> << >>]]
    /\ UNCHANGED << mainVars, db_lock, discovery, ranking, extraction, ledger, poller >>

\* json.dump(data, f) and the end of the with block
ResultDump(j) ==
    /\ results.pc = "serving"
    /\ results.jobs[j].pc = "opened"
    /\ results' = [results EXCEPT !.jobs[j].pc = "done",
                                  !.file = [state |-> "json",
                                            content |-> results.jobs[j].data]]
    /\ UNCHANGED << mainVars, db_lock, discovery, ranking, extraction, ledger, poller >>

ResultsNext ==
    \/ \E j \in DOMAIN results.jobs : ResultRead(j)
    \/ \E j \in DOMAIN results.jobs : ResultOpen(j)
    \/ \E j \in DOMAIN results.jobs : ResultDump(j)

ResultsSpec == ResultsInit /\ [][ResultsNext]_vars

(***************************************************************************)
(* Database._lock, the class-level RLock, and the threads that enter and   *)
(* leave with Database() blocks.                                           *)
(***************************************************************************)
DbLockInit ==
    /\ NoJob
    /\ discovery = NoDiscovery
    /\ ranking = NoRanking
    /\ extraction = NoExtraction
    /\ ledger = NoLedger
    /\ poller = NoPoller
    /\ results = NoResults
    /\ \E n \in 1..MaxDbThreads :
         db_lock = [pc |-> "serving", owner |-> 0, count |-> 0,
                    threads |-> [t \in 1..n |-> [pc |-> "out", blocks |-> 0]]]

\* a thread comes to with Database() as db: the constructor has run and
\* __enter__ is called
LockCall(t) ==
    /\ db_lock.pc = "serving"
    /\ db_lock.threads[t].pc = "out"
    /\ db_lock.threads[t].blocks < MaxBlocks
    /\ db_lock' = [db_lock EXCEPT !.threads[t].pc = "waiting", !.threads[t].blocks = @ + 1]
    /\ UNCHANGED << mainVars, discovery, ranking, extraction, ledger, poller, results >>

\* Database._lock.acquire(): the lock is free, or held by this thread
LockAcquire(t) ==
    /\ db_lock.pc = "serving"
    /\ db_lock.threads[t].pc = "waiting"
    /\ db_lock.owner \in {0, t}
    /\ db_lock' = [db_lock EXCEPT !.owner = t, !.count = @ + 1,
                                  !.threads[t].pc = "entering"]
    /\ UNCHANGED << mainVars, discovery, ranking, extraction, ledger, poller, results >>

\* self.conn = sqlite3.connect(...): the block is entered, or the exception
\* leaves __enter__ and __exit__ is not called
LockConnect(t, connected) ==
    /\ db_lock.pc = "serving"
    /\ db_lock.threads[t].pc = "entering"
    /\ db_lock' = [db_lock EXCEPT !.threads[t].pc = IF connected THEN "inside" ELSE "out"]
    /\ UNCHANGED << mainVars, discovery, ranking, extraction, ledger, poller, results >>

\* __exit__: commit or rollback, close, Database._lock.release(); a commit
\* or rollback that raises leaves __exit__ before the release
LockExit(t, finished) ==
    /\ db_lock.pc = "serving"
    /\ db_lock.threads[t].pc = "inside"
    /\ db_lock' = IF finished
                  THEN [db_lock EXCEPT !.threads[t].pc = "out", !.count = @ - 1,
                                       !.owner = IF db_lock.count = 1 THEN 0 ELSE t]
                  ELSE [db_lock EXCEPT !.threads[t].pc = "out"]
    /\ UNCHANGED << mainVars, discovery, ranking, extraction, ledger, poller, results >>

DbLockNext ==
    \/ \E t \in DOMAIN db_lock.threads : LockCall(t)
    \/ \E t \in DOMAIN db_lock.threads : LockAcquire(t)
    \/ \E t \in DOMAIN db_lock.threads : \E connected \in BOOLEAN : LockConnect(t, connected)
    \/ \E t \in DOMAIN db_lock.threads : \E finished \in BOOLEAN : LockExit(t, finished)

DbLockSpec == DbLockInit /\ [][DbLockNext]_vars

(***************************************************************************)
(* Properties.                                                             *)
(***************************************************************************)
\* run has left its try block: the return value is set and only the finally
\* clause and scrape_task remain
AfterRun == pc \in {"cleanup", "run_done", "pop", "finished"}

\* run has ended, by return or by exception
RunEnded == pc \in {"run_done", "pop", "finished"}

\* nothing is left to happen: the job's thread has ended and no stop request
\* is under way
Quiescent == pc = "finished" /\ stop_pc \in {"idle", "refused", "done"}

\* the futures whose page is recorded in visited_urls
Recorded == {i \in DOMAIN tasks : tasks[i].url \in visited_urls}

\* C1: a job started with max_pages = N never has more than N URLs in
\* visited_urls and never records more than N page visits as progress, in the
\* counter or in the stored row, whatever the number of candidates and the
\* interleaving of the workers.
C1_VisitedWithinBudget ==
    max_pages_arg # PyNone =>
        /\ Cardinality(visited_urls) <= max_pages_arg
        /\ progress_counter <= max_pages_arg
        /\ rec.current_row <= max_pages_arg

\* more candidates than the budget, and the budget is used up
C1_Witness ==
    /\ max_pages_arg # PyNone
    /\ Len(urls_to_visit) > max_pages_arg
    /\ Cardinality(visited_urls) = max_pages_arg
    /\ progress_counter = max_pages_arg
    /\ rec.current_row = max_pages_arg

\* C2: within one job no URL is navigated by a worker more than once.
C2_NoUrlVisitedTwice == \A u \in UrlIds : hist.nav[u] <= 1

\* two workers hold a session at the same time and have navigated two pages
C2_Witness ==
    \E i, j \in DOMAIN tasks :
        /\ i # j
        /\ tasks[i].pc = "record" /\ tasks[j].pc = "record"
        /\ hist.nav[tasks[i].url] = 1 /\ hist.nav[tasks[j].url] = 1

\* C3: all_emails is exactly the union of the email sets the workers extracted
\* from the pages recorded in visited_urls, at every moment and so when all
\* workers have finished; and when the budget covers every candidate and no
\* worker saw the stop signal, every candidate is recorded, so that the result
\* is the one of visiting the candidates one after the other.
C3_NoLostUpdates ==
    /\ all_emails = UNION {tasks[i].emails : i \in Recorded}
    /\ (/\ pc \in {"final_check", "write_completed"} \cup {"cleanup", "run_done", "pop", "finished"}
        /\ exc = "None"
        /\ tasks # << >>
        /\ max_pages >= Len(urls_to_visit)
        /\ \A i \in DOMAIN tasks : tasks[i].pc # "skipped_stop")
       => /\ visited_urls = Range(urls_to_visit)
          /\ all_emails = UNION {tasks[i].emails : i \in DOMAIN tasks}

\* two workers ran at once, both pages are recorded with different email sets,
\* and the job has ended
C3_Witness ==
    /\ pc = "finished"
    /\ max_threads >= 2
    /\ \E i, j \in Recorded :
         /\ tasks[i].emails # {} /\ tasks[j].emails # {}
         /\ tasks[i].emails # tasks[j].emails
    /\ Cardinality(all_emails) >= 3

\* C4 (as claimed): when every worker found the stop signal set at its start,
\* the job ends with the stored status stopped, current_row 0 and no page
\* navigated.
C4_StoppedBeforeWorkers ==
    (/\ Quiescent
     /\ tasks # << >>
     /\ \A i \in DOMAIN tasks : tasks[i].pc = "skipped_stop")
    => /\ rec.status = "stopped"
       /\ rec.current_row = 0
       /\ \A u \in UrlIds : hist.nav[u] = 0

\* C5 (as claimed): when the stop signal appeared during the Scraping phase,
\* the stored status is stopped once the workers have drained and the job has
\* ended.
C5_StoppedWhenDrained ==
    (Quiescent /\ hist.flag_in_scraping) => rec.status = "stopped"

\* C6: a run that reaches its return statement without having read the stop
\* signal set and without an exception in its handler has written, as its last
\* checkpoint, status completed with total_rows = min(number of ranked
\* candidates, max_pages).
C6_CompletedCheckpoint ==
    (AfterRun /\ exc = "None" /\ ~hist.stop_observed)
    => /\ hist.run_checkpoint.status = "completed"
       /\ hist.run_checkpoint.total_rows = min(Len(urls_to_visit), max_pages_arg)

\* a completed run with more candidates than pages, and one with fewer
C6_Witness ==
    /\ pc = "finished"
    /\ exc = "None"
    /\ ~hist.stop_observed
    /\ Len(urls_to_visit) > max_pages_arg
    /\ Cardinality(visited_urls) = max_pages_arg

\* C7 (as claimed): run never ends by raising, and what it returns is the
\* emails accumulated.
C7_RunNeverRaises ==
    RunEnded => (run_result = "returned" /\ returned = all_emails)

\* C8 (as claimed): when run's handler caught an exception, the failed
\* checkpoint carries the exception's message and run returns the emails
\* accumulated so far.
C8_FailedAndReturned ==
    (RunEnded /\ exc # "None")
    => /\ hist.run_checkpoint.status = "failed"
       /\ hist.run_checkpoint.error_message = exc
       /\ run_result = "returned"
       /\ returned = all_emails

\* the primary session could not be acquired
SetupFailed == pc # "setup" /\ ~manager

\* C9: when the primary session cannot be acquired, _setup_driver is not
\* tried again, no sitemap discovery and no page visit take place, and run's
\* checkpoint is failed with the message of the failure.
C9_SetupFailureIsFatal ==
    SetupFailed
    => /\ hist.setup_calls = 1
       /\ hist.discover_calls = 0
       /\ tasks = << >>
       /\ \A u \in UrlIds : hist.nav[u] = 0
       /\ exc # "None"
       /\ AfterRun => /\ hist.run_checkpoint.status = "failed"
                      /\ hist.run_checkpoint.error_message = exc
                      /\ hist.run_checkpoint.error_message # "None"

\* the job has ended after a failed session acquisition
C9_Witness ==
    /\ SetupFailed
    /\ pc = "finished"
    /\ rec.status = "failed"
    /\ rec.error_message = "session not created"

\* C10 (as claimed): once the stored status is completed, failed or stopped,
\* no write changes it.
C10_TerminalIsFinal ==
    [][rec.status \in Terminal => rec'.status = rec.status]_vars

C12_SessionsReleased ==
    RunEnded => /\ primary # "open"
                /\ \A i \in DOMAIN tasks : tasks[i].driver # "open"

\* a failed run: one worker raised after it had acquired its session, another
\* recorded its page, and all three sessions were closed
C12_Witness ==
    /\ pc = "finished"
    /\ primary = "closed"
    /\ hist.run_checkpoint.status = "failed"
    /\ \E i, j \in DOMAIN tasks :
         /\ tasks[i].exc = "TypeError: scrape_page" /\ tasks[i].driver = "closed"
         /\ tasks[j].exc = "None" /\ tasks[j].driver = "closed"

\* the kinds of document that list page URLs of their own
PageBearing == {"urlset", "embedded_urlset", "html", "text", "malformed"}

\* C13 (as claimed): within one discovery pass, the sitemaps of robots.txt and
\* the three fallback paths with all their recursion, no sitemap URL is
\* fetched more than once.
C13_NoSitemapFetchedTwice ==
    \A d \in SitemapIds : discovery.calls.fetches[d] <= 1

\* C14: no sitemap is fetched at a recursion depth greater than 2, whatever
\* kinds of index the recursion goes through.
C14_DepthBounded == discovery.calls.deepest <= 2

\* the first top-level call went down a chain of three indexes of three
\* different kinds, and the fourth sitemap of the chain was not fetched
C14_Witness ==
    /\ discovery.pc = "sitemaps"
    /\ discovery.robots = << >>
    /\ Len(discovery.todo) = 2
    /\ discovery.web.fanout = 1
    /\ discovery.web.kinds = (0 :> "text" @@ 1 :> "embedded_index" @@ 2 :> "malformed")
    /\ discovery.calls.deepest = 2
    /\ discovery.calls.fetches[3] = 0

\* C15: a sitemap that cannot be fetched or parsed adds nothing, and takes
\* nothing away: the pages of every fetched document that lists pages, the
\* siblings and the parent of a failing sitemap among them, are in the list
\* the pass returns.
C15_FailureIsLocal ==
    \A d \in SitemapIds :
        (discovery.calls.fetches[d] >= 1 /\ DocKind(discovery.web, d) \in PageBearing)
        => \E i \in DOMAIN discovery.calls.urls : discovery.calls.urls[i] = d

\* an HTML index whose first child cannot be fetched and whose second child
\* is a URL set: the pages of the index and of the second child are returned
C15_Witness ==
    /\ discovery.pc = "done"
    /\ discovery.web.kinds = (0 :> "html" @@ 1 :> "unreachable" @@ 2 :> "urlset")
    /\ discovery.calls.fetches[1] >= 1
    /\ \E i, j \in DOMAIN discovery.calls.urls :
         discovery.calls.urls[i] = 0 /\ discovery.calls.urls[j] = 2

\* C16 (as claimed): no index is recursed into for more than the job's
\* sitemap_limit children, and every call at every depth is given the job's
\* sitemap_limit.
C16_LimitAtEveryLevel ==
    /\ discovery.calls.widest <= discovery.sitemap_limit
    /\ discovery.calls.limits \subseteq {discovery.sitemap_limit}

\* a netloc with its case folded and one leading "www." left out, the "www."
\* looked for whatever its case
HostKey(netloc) ==
    LET rest == IF netloc # << >> /\ Lower(netloc[1]) = "www." THEN Tail(netloc) ELSE netloc
    IN [i \in DOMAIN rest |-> Lower(rest[i])]

\* C17: the prioritized list holds exactly the input URLs whose host is the
\* seed's host, case and one leading "www." ignored, each of them once: no
\* duplicate, no URL of another domain or of a subdomain, none left out.
C17_SameDomainOnce ==
    ranking.pc = "returned"
    => /\ \A i, j \in DOMAIN ranking.output :
            ranking.output[i] = ranking.output[j] => i = j
       /\ Range(ranking.output) =
            {u \in Range(ranking.input) : HostKey(UrlNetloc(u)) = HostKey(UrlNetloc(ranking.seed))}

\* the input has a "WWW." URL in capitals twice and a URL of a subdomain; the
\* output has the first alone
C17_Witness ==
    /\ ranking.pc = "returned"
    /\ ranking.seed = 1
    /\ Len(ranking.input) > Cardinality(Range(ranking.input))
    /\ {3, 4} \subseteq Range(ranking.input)
    /\ Range(ranking.output) = {3}

\* ten times the score of the claim: 10 for every keyword in the URL plus
\* max(0, 100 - length) / 10
ScoreTimesTen(u) == 100 * UrlKeywords(u) + max(0, 100 - UrlLength(u))

\* C18: the prioritized list is in descending order of score, and URLs of
\* equal score are in ascending order of length.
C18_OrderedByScoreThenLength ==
    ranking.pc = "returned"
    => \A i, j \in DOMAIN ranking.output :
         i < j => \/ ScoreTimesTen(ranking.output[i]) > ScoreTimesTen(ranking.output[j])
                  \/ /\ ScoreTimesTen(ranking.output[i]) = ScoreTimesTen(ranking.output[j])
                     /\ UrlLength(ranking.output[i]) <= UrlLength(ranking.output[j])

\* two URLs of more than 100 characters and no keyword come in with the longer
\* first and go out with the shorter first, behind a URL with a keyword
C18_Witness ==
    /\ ranking.pc = "returned"
    /\ ranking.input = << 5, 7, 2 >>
    /\ ranking.output = << 2, 7, 5 >>

\* the placeholder domains of the claim
PlaceholderDomains ==
    {"example.com", "example.org", "example.net", "test.com", "sample.com", "example.me"}

\* the address is of a placeholder domain or of a subdomain of one, whatever
\* its case
IsPlaceholder(e) ==
    Lower(AddressDomain(e)[Len(AddressDomain(e))]) \in PlaceholderDomains

\* C19 (as claimed): extract_emails_from_text returns the matches of the text
\* without the addresses of a placeholder domain (example.com, example.org,
\* example.net, test.com, sample.com, example.me) or of a subdomain of one,
\* and with every other match.
C19_NoPlaceholderAddresses ==
    extraction.pc = "returned"
    => extraction.output = {e \in Range(extraction.matches) : ~IsPlaceholder(e)}

\* the workers that have called scrape_page
CalledScrapePage == {i \in DOMAIN tasks : tasks[i].pc \in {"record", "close", "done", "raised"}
                                          /\ tasks[i].driver # "none"}

\* C20 (as claimed): the visit of a page never aborts the crawl: a worker that
\* called scrape_page for its page goes on without an exception of that call,
\* with the page's emails or with none, and the run is not failed by it.
C20_PageFailureDoesNotAbort ==
    /\ \A i \in CalledScrapePage : tasks[i].exc # "TypeError: scrape_page"
    /\ exc # "TypeError: scrape_page"

\* C21 (as claimed): scrape_page, called by the worker with its session and
\* its URL, returns to the worker with a set of emails of the page, empty when
\* the extraction failed, and never raises.
C21_ScrapePageReturnsSet ==
    [][\A i \in DOMAIN tasks :
          (tasks[i].pc = "scrape" /\ tasks'[i].pc # "scrape")
          => /\ tasks'[i].pc = "record"
             /\ tasks'[i].emails \subseteq PageEmails(tasks[i].url)]_vars

\* C22 (as claimed): write_progress on a key without a stored row makes one
\* insert and no update, on a key with a stored row one update and no
\* insert, whether or not the statement then fails; and no storage error
\* leaves write_progress: it is logged.
C22_OneInsertOrOneUpdate ==
    ledger.last.op = "write_progress"
    => /\ ledger.last.raised = "None"
       /\ (ledger.last.outcome # "ok" => ledger.last.logged)
       /\ (ledger.last.outcome # "raises"
              => IF ledger.last.existed
                 THEN ledger.last.updates = 1 /\ ledger.last.inserts = 0
                 ELSE ledger.last.inserts = 1 /\ ledger.last.updates = 0)

\* C23: a write_progress call without a status stores stopped if stop_call
\* is true, otherwise completed if current_row and total_rows are both given
\* and current_row >= total_rows, otherwise running.
C23_DerivedStatus ==
    (ledger.last.op = "write_progress" /\ ledger.args.status = "None"
        /\ ledger.last.outcome \in {"ok", "read_error"})
    => ledger.committed[ledger.last.key].rec.status =
          CASE ledger.args.stop_call = 1 -> "stopped"
            [] ledger.args.stop_call # 1 /\ ledger.args.current_row # PyNone
                 /\ ledger.args.total_rows # PyNone
                 /\ ledger.args.current_row >= ledger.args.total_rows -> "completed"
            [] OTHER -> "running"

\* a call without a status, with stop_call true and current_row = total_rows,
\* on a stored running row: stopped is stored, not completed
C23_Witness ==
    /\ ledger.last.op = "write_progress"
    /\ ledger.last.outcome = "ok"
    /\ ledger.last.existed
    /\ ledger.args.status = "None"
    /\ ledger.args.stop_call = 1
    /\ ledger.args.current_row = MaxRow
    /\ ledger.args.total_rows = MaxRow
    /\ ledger.committed[ledger.last.key].rec.status = "stopped"

\* C24: update_job_execution changes, in the row of its key, only the columns
\* whose argument is not None, and updated_at; the other columns of the row,
\* every other row and the committed table keep their values; a call for a
\* key without a row, or one whose statement fails, changes nothing.
C24_UpdateFrame ==
    [][(ledger.pc = "block" /\ ledger'.pc = "block" /\ ledger'.last.op = "update")
       => LET k == ledger'.last.key
              a == ledger.args
              old == ledger.working[k]
              new == ledger'.working[k]
              applied == old.rec.exists /\ ledger'.last.outcome = "ok"
          IN /\ \A j \in LedgerKeys \ {k} : ledger'.working[j] = ledger.working[j]
             /\ ledger'.committed = ledger.committed
             /\ new.input = old.input
             /\ new.rec.exists = old.rec.exists
             /\ new.rec.status = (IF a.status # "None" /\ applied THEN a.status
                                  ELSE old.rec.status)
             /\ new.rec.current_row = (IF a.current_row # PyNone /\ applied
                                       THEN a.current_row ELSE old.rec.current_row)
             /\ new.rec.total_rows = (IF a.total_rows # PyNone /\ applied
                                      THEN a.total_rows ELSE old.rec.total_rows)
             /\ new.rec.error_message = (IF a.error_message # "None" /\ applied
                                         THEN a.error_message ELSE old.rec.error_message)
             /\ new.rec.stop_call = (IF a.stop_call # PyNone /\ applied
                                     THEN a.stop_call ELSE old.rec.stop_call)
             /\ (applied => new.updated_at = "now")
             /\ (~applied => new = old)]_vars

\* an update with a current_row and without status and error_message on a
\* stored failed row, next to another stored row: the row has the new
\* current_row and still its status and its error message
C24_Witness ==
    /\ ledger.pc = "block"
    /\ ledger.last.op = "update"
    /\ ledger.last.outcome = "ok"
    /\ ledger.last.existed
    /\ ledger.args.status = "None"
    /\ ledger.args.error_message = "None"
    /\ ledger.args.current_row = MaxRow
    /\ ledger.working[ledger.last.key].rec.current_row = MaxRow
    /\ ledger.working[ledger.last.key].rec.status = "failed"
    /\ ledger.working[ledger.last.key].rec.error_message = "boom"
    /\ ledger.working[ledger.last.key].updated_at = "now"
    /\ \A j \in LedgerKeys : ledger.working[j].rec.exists

\* C25 (as claimed): insert_job_execution for a key that has a row raises an
\* integrity error and leaves the row as it was.
C25_InsertExistingFails ==
    [][(ledger.pc = "block" /\ ledger'.pc = "block" /\ ledger'.last.op = "insert"
          /\ ledger.working[ledger'.last.key].rec.exists)
       => /\ ledger'.last.raised = "IntegrityError"
          /\ ledger'.working[ledger'.last.key] = ledger.working[ledger'.last.key]]_vars

\* C26: nothing written in a with block reaches the stored table before the
\* block ends; a block that ends normally stores all it wrote, and a block
\* that ends with an exception stores nothing and leaves the table as it was.
C26_CommitOrRollback ==
    /\ [][(ledger.pc = "block" /\ ledger'.pc = "block")
            => ledger'.committed = ledger.committed]_vars
    /\ [][(ledger.pc = "block" /\ ledger'.pc = "done")
            => /\ ledger'.committed = (IF ledger'.last.raised = "None" THEN ledger.working
                                       ELSE ledger.committed)
               /\ ledger'.working = ledger'.committed]_vars

\* a block that wrote and then ended with an exception, on a table that
\* held a row: the row is as it was stored earlier
C26_Witness ==
    /\ ledger.pc = "done"
    /\ ledger.last.op = "exit"
    /\ ledger.last.raised = "ValueError"
    /\ ledger.dirty
    /\ \A j \in LedgerKeys :
         ledger.committed[j].rec.exists /\ ledger.committed[j].updated_at = "earlier"

\* the answers that end the polling
TerminalAnswers == {"completed", "failed", "stopped"}

\* C27: poll_job_progress makes at most max_retries requests; it goes on only
\* while no answer was terminal; it returns the status of the first terminal
\* answer, made no request after it, and otherwise returns failed with
\* "Progress check failed after <max_retries> attempts" after exactly
\* max_retries requests.
C27_PollingBounded ==
    LET n == Len(poller.responses)
        terminalAt == {i \in 1..n : poller.responses[i] \in TerminalAnswers}
    IN /\ n <= poller.max_retries
       /\ poller.pc = "polling" => terminalAt = {}
       /\ poller.pc = "returned"
            => IF terminalAt # {}
               THEN /\ terminalAt = {n}
                    /\ poller.result.status = poller.responses[n]
               ELSE /\ n = poller.max_retries
                    /\ poller.result.status = "failed"
                    /\ poller.result.error =
                          << "Progress check failed after", poller.max_retries, "attempts" >>

\* a running answer, an answer with another code and a request exception
\* use up the three attempts: failed is returned
C27_Witness ==
    /\ poller.pc = "returned"
    /\ poller.max_retries = MaxRetries
    /\ Len(poller.responses) = poller.max_retries
    /\ {"running", "non200", "exception"} \subseteq Range(poller.responses)
    /\ poller.result.status = "failed"
    /\ poller.result.progress = "None"

\* the jobs whose thread has written the file and is through with it
Finished == {j \in DOMAIN results.jobs : results.jobs[j].pc = "done"}

\* C28 (as claimed): whenever no thread is writing the file, the file holds
\* exactly one record for each job that has finished, its own, and nothing
\* else.
C28_ResultFileAppendOnly ==
    (\A j \in DOMAIN results.jobs : results.jobs[j].pc # "opened")
    => /\ \A j \in Finished :
            Cardinality({i \in DOMAIN results.file.content :
                            results.file.content[i] = ResultOf(j)}) = 1
       /\ Len(results.file.content) = Cardinality(Finished)

\* C29: a worker that finds the stop signal set when it starts returns at
\* once: it acquires no session, navigates no page and leaves visited_urls,
\* all_emails, progress_counter and the stored row as they are; and it stays
\* without a session and without emails.
C29_StoppedWorkerDoesNothing ==
    /\ [](\A i \in DOMAIN tasks :
            tasks[i].pc = "skipped_stop" => (tasks[i].driver = "none" /\ tasks[i].emails = {}))
    /\ [][\A i \in DOMAIN tasks :
             (stop_file /\ tasks[i].pc = "queued" /\ tasks'[i].pc \notin {"queued", "cancelled"})
             => /\ tasks'[i].pc = "skipped_stop"
                /\ tasks'[i].driver = "none"
                /\ UNCHANGED << visited_urls, all_emails, progress_counter, rec >>
                /\ hist'.nav = hist.nav]_vars

\* the stop signal came while the job was scraping: one worker has recorded
\* its page, a later one found the signal set and returned
C29_Witness ==
    /\ \E i, j \in DOMAIN tasks :
         /\ tasks[i].pc = "done" /\ tasks[i].url \in visited_urls
         /\ tasks[j].pc = "skipped_stop" /\ tasks[j].url \notin visited_urls
    /\ progress_counter = 1
    /\ rec.current_row = 1

\* C30: no worker holds the mutex while it acquires its session or navigates
\* its page, and visited_urls and all_emails change only in a worker's
\* critical section, entered with the mutex free and left with it released.
C30_MutexDiscipline ==
    /\ [](\A i \in DOMAIN tasks : tasks[i].pc \in {"get_driver", "scrape"} => lock # i)
    /\ [][(visited_urls' # visited_urls \/ all_emails' # all_emails)
           => /\ lock = 0
              /\ lock' = 0
              /\ \E i \in DOMAIN tasks : tasks[i].pc = "record" /\ tasks'[i].pc = "close"]_vars

\* one worker navigates while another acquires its session, both past their
\* first critical section, and the mutex is free
C30_Witness ==
    /\ lock = 0
    /\ \E i, j \in DOMAIN tasks : tasks[i].pc = "scrape" /\ tasks[j].pc = "get_driver"

\* the workers that are running, and those whose own session is open
Running == {i \in DOMAIN tasks : TaskRunning(tasks[i])}
OpenSessions == {i \in DOMAIN tasks : tasks[i].driver = "open"}

\* C31: at every moment at most max_threads workers are running, and only
\* running workers have a session open, so that at most max_threads worker
\* sessions are open at once.
C31_PoolBounded ==
    /\ Cardinality(Running) <= max_threads
    /\ OpenSessions \subseteq Running
    /\ Cardinality(OpenSessions) <= max_threads

\* a pool of one thread: one worker has its session open and the next future
\* waits in the queue
C31_Witness ==
    /\ max_threads = 1
    /\ primary = "open"
    /\ \E i, j \in DOMAIN tasks :
         /\ tasks[i].pc = "scrape" /\ tasks[i].driver = "open"
         /\ tasks[j].pc = "queued"

\* the URLs of the futures, in submission order
SubmittedUrls == [i \in DOMAIN tasks |-> tasks[i].url]

\* C32: total_urls changes only when _filter_and_sort_urls ends, to
\* min(len(urls_to_visit), max_pages); the ranked list does not change after
\* that; the futures are the first total_urls entries of the ranked list, in
\* rank order, and they start in that order.
C32_TotalFixedAndDispatched ==
    /\ [](tasks # << >> => SubmittedUrls = SubSeq(urls_to_visit, 1, total_urls))
    /\ [][total_urls' # total_urls
            => /\ pc = "prioritize"
               /\ total_urls' = min(Len(urls_to_visit'), max_pages)]_vars
    /\ [][pc \notin {"setup", "discover", "prioritize"}
            => urls_to_visit' = urls_to_visit /\ total_urls' = total_urls]_vars
    /\ [][\A i \in DOMAIN tasks :
             (tasks[i].pc = "queued" /\ tasks'[i].pc \notin {"queued", "cancelled"})
             => \A j \in 1..(i - 1) : tasks[j].pc # "queued"]_vars

\* three ranked URLs and a budget of two: the first two are submitted, the
\* first has been scraped
C32_Witness ==
    /\ Len(urls_to_visit) = 3
    /\ max_pages = 2
    /\ total_urls = 2
    /\ Len(tasks) = 2
    /\ tasks[1].url = urls_to_visit[1] /\ tasks[2].url = urls_to_visit[2]
    /\ tasks[1].pc = "done"

\* the top-level calls of get_urls_from_sitemap that _discover_urls has made
TopLevelCalls ==
    IF discovery.pc = "robots" THEN 0
    ELSE Len(discovery.robots) + Len(FallbackSitemaps) - Len(discovery.todo)

\* the top-level calls _discover_urls has still to make, and one for the
\* reading of robots.txt
CallsLeft ==
    IF discovery.pc = "robots" THEN Len(discovery.robots) + Len(FallbackSitemaps) + 1
    ELSE Len(discovery.todo)

\* C33: every discovery pass ends, whatever the documents are and however
\* they reference each other: until the pass is done there is a call left
\* to make, every step (a call that has returned) leaves fewer calls to
\* make, and in one top-level call no sitemap URL is fetched more than once,
\* so that a cycle of references is followed once.
C33_DiscoveryTerminates ==
    /\ [](/\ discovery.pc \in {"robots", "sitemaps", "done"}
          /\ discovery.pc = "sitemaps" => discovery.todo # << >>
          /\ discovery.pc = "done" <=> CallsLeft = 0
          /\ \A d \in SitemapIds : discovery.calls.fetches[d] <= TopLevelCalls)
    /\ [][CallsLeft' < CallsLeft]_vars

\* a pass over indexes and HTML sitemaps that all reference each other has
\* ended: the references were followed down to max_depth
C33_Witness ==
    /\ discovery.pc = "done"
    /\ \A r \in 0..2 : discovery.web.kinds[r] \in {"sitemapindex", "embedded_index", "html"}
    /\ discovery.web.kinds[1] = "html"
    /\ discovery.web.fanout = MaxChildren
    /\ discovery.calls.deepest = max_depth
    /\ \E d \in SitemapIds : discovery.calls.fetches[d] >= 2

\* C34: whenever the job mutex is free, progress_counter is the number of
\* URLs in visited_urls, and every checkpoint a worker writes carries that
\* number as current_row.
C34_CounterIsVisitedCount ==
    /\ [](lock = 0 => progress_counter = Cardinality(visited_urls))
    /\ [][progress_counter' # progress_counter
            => /\ rec'.current_row = Cardinality(visited_urls')
               /\ progress_counter' = Cardinality(visited_urls')]_vars

\* two workers have recorded their pages: the counter and the row say two
C34_Witness ==
    /\ lock = 0
    /\ Cardinality(visited_urls) = 2
    /\ progress_counter = 2
    /\ rec.current_row = 2
    /\ rec.status = "running"

C36_StopCallKept ==
    [][(ledger.pc = "idle" /\ ledger'.last.op = "write_progress"
          /\ ledger'.last.outcome = "ok"
          /\ ledger.args.status = "running" /\ ledger.args.stop_call = 0
          /\ ledger.committed[ledger'.last.key].rec.exists
          /\ ledger.committed[ledger'.last.key].rec.stop_call = 1)
       => ledger'.committed[ledger'.last.key].rec.stop_call = 1]_vars

\* C37: whenever the stored status is completed, current_row equals
\* total_rows and every dispatched URL is in visited_urls.
C37_CompletedMeansAllVisited ==
    rec.status = "completed"
    => /\ rec.current_row = rec.total_rows
       /\ rec.total_rows = total_urls
       /\ Cardinality(visited_urls) = total_urls
       /\ \A i \in DOMAIN tasks : tasks[i].url \in visited_urls

\* a job of two pages is completed: both are visited
C37_Witness ==
    /\ rec.status = "completed"
    /\ rec.current_row = 2
    /\ total_urls = 2
    /\ Cardinality(visited_urls) = 2

\* C38 (as claimed): a worker of this job returns without visiting only when
\* a stop was requested for this job; a stop requested for another job of
\* the step does not make it return.
C38_StopIsPerJob ==
    [][\A i \in DOMAIN tasks :
          (tasks[i].pc = "queued" /\ tasks'[i].pc = "skipped_stop")
          => stop_pc \in {"read", "write", "join", "done"}]_vars

\* C39 (as claimed): a stop request that arrives while the job is in
\* active_jobs is accepted, in whatever phase the job is, and creates the
\* stop signal.
C39_StopAcceptedInEveryPhase ==
    [][(stop_pc = "idle" /\ stop_pc' # "idle" /\ active) => stop_pc' = "create"]_vars

\* C40 (as claimed): at most one thread is entering or inside a with-block,
\* and the class lock is held only by such a thread: a thread that has left
\* its block, or whose __enter__ has raised, does not hold it, so that a
\* waiting thread is never kept out by a thread that is not in a block.
C40_LockReleasedOnEveryPath ==
    /\ Cardinality({t \in DOMAIN db_lock.threads :
                       db_lock.threads[t].pc \in {"entering", "inside"}}) <= 1
    /\ \A t \in DOMAIN db_lock.threads :
          db_lock.threads[t].pc \in {"out", "waiting"} => db_lock.owner # t

====
